---- MODULE Spec2Model ----
(***************************************************************************)
(* google-contacts-sync: one reconciliation run of sync.py over the        *)
(* accounts of the configuration file, in --init mode or in normal mode.   *)
(* The remote accounts (class Contacts of contacts.py) are modelled from   *)
(* the ReplicaStore contract; the script itself is modelled statement by   *)
(* statement, one action per remote call or loop step.                     *)
(***************************************************************************)
EXTENDS Integers, Sequences, FiniteSets, TLC

\* ------------------------------------------------------------------ bounds
MaxUserOps == 2      \* user changes between two runs
MaxClock == 3        \* the user stops changing things at this time
MaxTag == 5          \* size of the modelled tag space
MaxPeople == 3       \* contacts a user keeps in one account
MaxGroups == 2       \* labels a user keeps in one account

\* --------------------------------------------------------- value encodings
NoTag == 0           \* Python None as a tag (and 0 as a resource name is None)
MyContacts == 1      \* contactGroupId "myContacts", the default membership
Starred == 2         \* a system group: it has no sync tag in any account
Tags == 1..MaxTag
Names == {"Ann", "Bob"}

\* con: the accounts, in the order of the configuration file's sections
Con == <<1, 2, 3>>
Accounts == {Con[i] : i \in 1..Len(Con)}

\* resource names of contact groups are unique across accounts
GroupRn(a, n) == a * 10 + n
GroupOwner(grn) == grn \div 10

VARIABLES
    people,        \* remote contacts: account -> rn -> record
    cgroups,       \* remote contact groups: account -> group rn -> record
    info,          \* acc.info: cached contact snapshot of each Contacts object
    info_group,    \* acc.info_group: cached group snapshot
    last,          \* cp['DEFAULT']['last'], the persisted watermark
    clock,         \* the remote stores' time
    issued,        \* every tag a remote record has ever borne
    budget,        \* user changes left before the next run
    pc,            \* position of the script
    mode,          \* "init" or "normal" (args.init)
    exitcode,      \* -1 while running or after an uncaught exception
    all_sync_tags, \* the module-level set of new_tag
    todel,         \* tags to delete in the current phase
    added,         \* (account, rn) pairs added in the current phase
    work,          \* what is left of the loop the script is in
    cur,           \* the loop variables of the current iteration
    t2aru,         \* tag -> <<account, rn, updated>> candidates
    done,          \* names handled by --init
    ncalls,        \* remote writes issued by this run
    lastcall,      \* the most recent remote write of this run
    pre,           \* the remote state when the run started
    prev           \* how the run before this one ended, and its pre

vars == <<people, cgroups, info, info_group, last, clock, issued, budget,
          pc, mode, exitcode, all_sync_tags, todel, added, work, cur, t2aru,
          done, ncalls, lastcall, pre, prev>>

store == <<people, cgroups>>
cache == <<info, info_group>>
locals == <<all_sync_tags, todel, added, work, cur, t2aru, done>>

\* ----------------------------------------------------------------- helpers
Max(S) == CHOOSE x \in S : \A y \in S : y <= x
Min(S) == CHOOSE x \in S : \A y \in S : x <= y

RECURSIVE SetToSeq(_)
\* the elements of a set of integers in ascending order
SetToSeq(S) == IF S = {} THEN <<>> ELSE <<Min(S)>> \o SetToSeq(S \ {Min(S)})

Range(s) == {s[i] : i \in 1..Len(s)}

Remove(f, k) == [x \in DOMAIN f \ {k} |-> f[x]]

NoCall == [op |-> "none", acc |-> 0, key |-> 0, tag |-> NoTag, mem |-> {}]
NoCur == [acc |-> 0]
NoPrev == [how |-> "none"]

\* Tags borne by the records of one account map
TagsOf(f) == {f[rn].tag : rn \in DOMAIN f} \ {NoTag}

RemoteTags ==
    UNION {TagsOf(people[a]) : a \in Accounts}
        \cup UNION {TagsOf(cgroups[a]) : a \in Accounts}

Untagged(f) == {rn \in DOMAIN f : f[rn].tag = NoTag}

\* ------------------------------------------- the remote accounts (Contacts)
\* What get(rn) returns and what add/update take: the record body with its
\* clientData tag, name and memberships.
Payload(r) == [tag |-> r.tag, name |-> r.name, body |-> r.body, mem |-> r.mem]

ContactRec(p, now) ==
    [tag |-> p.tag, name |-> p.name, updated |-> now, body |-> p.body, mem |-> p.mem]

InfoRec(r) == [tag |-> r.tag, name |-> r.name, updated |-> r.updated]

GroupPayload(g) == [tag |-> g.tag, name |-> g.name]

GroupRec(p, now) == [tag |-> p.tag, name |-> p.name, updated |-> now]

\* the snapshot get_info() takes of one account
Snapshot(f) == [rn \in DOMAIN f |-> InfoRec(f[rn])]

\* the resource name the remote store gives a new contact
NextRn(f) == IF DOMAIN f = {} THEN 1 ELSE Max(DOMAIN f) + 1

\* the resource name the remote store gives a new group of account a
NextGroupRn(f, a) ==
    IF DOMAIN f = {} THEN GroupRn(a, 1) ELSE Max(DOMAIN f) + 1

\* tag_to_rn / tag_to_rn_contactGroup: the record bearing the tag, 0 for None
TagToRn(f, tag) ==
    LET S == {rn \in DOMAIN f : f[rn].tag = tag}
    IN  IF tag = NoTag \/ S = {} THEN 0 ELSE Min(S)

\* rn_to_tag_contactGroup: the tag of a group, NoTag for a system group
RnToTag(f, grn) == IF grn \in DOMAIN f THEN f[grn].tag ELSE NoTag

\* name_to_rn: the contact of that name, 0 for None
NameToRn(f, name) ==
    LET S == {rn \in DOMAIN f : f[rn].name = name}
    IN  IF S = {} THEN 0 ELSE Min(S)

\* ------------------------------------------------------- the users' changes
Idle == pc = "idle" /\ budget > 0

UntaggedCount ==
    LET n[i \in 0..Len(Con)] ==
        IF i = 0 THEN 0
        ELSE n[i - 1] + Cardinality(Untagged(people[Con[i]]))
                      + Cardinality(Untagged(cgroups[Con[i]]))
    IN  n[Len(Con)]

\* the tag space never runs out: it has 26^20 tags
RoomForTag == Cardinality(issued) + UntaggedCount < MaxTag

MemChoices(a) ==
    {{MyContacts} \cup S : S \in SUBSET ({Starred} \cup DOMAIN cgroups[a])}

UserStep ==
    /\ budget' = budget - 1
    /\ UNCHANGED <<cache, last, clock, issued, pc, mode, exitcode, locals,
                   ncalls, lastcall, pre, prev>>

UserAddContact(a, name, mem) ==
    /\ Idle
    /\ Cardinality(DOMAIN people[a]) < MaxPeople
    /\ RoomForTag
    /\ people' = [people EXCEPT ![a] = @ @@ (NextRn(@) :>
            [tag |-> NoTag, name |-> name, updated |-> clock,
             body |-> <<a, clock>>, mem |-> mem])]
    /\ UNCHANGED cgroups
    /\ UserStep

UserEditContact(a, rn, mem) ==
    /\ Idle
    /\ rn \in DOMAIN people[a]
    /\ people' = [people EXCEPT ![a][rn] =
            [@ EXCEPT !.updated = clock, !.body = <<a, clock>>, !.mem = mem]]
    /\ UNCHANGED cgroups
    /\ UserStep

UserDeleteContact(a, rn) ==
    /\ Idle
    /\ rn \in DOMAIN people[a]
    /\ people' = [people EXCEPT ![a] = Remove(@, rn)]
    /\ UNCHANGED cgroups
    /\ UserStep

UserAddGroup(a) ==
    /\ Idle
    /\ Cardinality(DOMAIN cgroups[a]) < MaxGroups
    /\ RoomForTag
    /\ cgroups' = [cgroups EXCEPT ![a] = @ @@ (NextGroupRn(@, a) :>
            [tag |-> NoTag, name |-> <<a, clock>>, updated |-> clock])]
    /\ UNCHANGED people
    /\ UserStep

UserRenameGroup(a, grn) ==
    /\ Idle
    /\ grn \in DOMAIN cgroups[a]
    /\ cgroups' = [cgroups EXCEPT ![a][grn] =
            [@ EXCEPT !.updated = clock, !.name = <<a, clock>>]]
    /\ UNCHANGED people
    /\ UserStep

\* the remote store takes a deleted group out of its contacts' memberships
DropGroup(f, grn) == [rn \in DOMAIN f |-> [f[rn] EXCEPT !.mem = @ \ {grn}]]

UserDeleteGroup(a, grn) ==
    /\ Idle
    /\ grn \in DOMAIN cgroups[a]
    /\ cgroups' = [cgroups EXCEPT ![a] = Remove(@, grn)]
    /\ people' = [people EXCEPT ![a] = DropGroup(@, grn)]
    /\ UserStep

Tick ==
    /\ pc = "idle"
    /\ clock < MaxClock
    /\ clock' = clock + 1
    /\ UNCHANGED <<store, cache, last, issued, budget, pc, mode, exitcode,
                   locals, ncalls, lastcall, pre, prev>>

User ==
    \/ \E a \in Accounts, name \in Names :
         \E mem \in MemChoices(a) : UserAddContact(a, name, mem)
    \/ \E a \in Accounts : \E rn \in DOMAIN people[a] :
         \E mem \in MemChoices(a) : UserEditContact(a, rn, mem)
    \/ \E a \in Accounts : \E rn \in DOMAIN people[a] : UserDeleteContact(a, rn)
    \/ \E a \in Accounts : UserAddGroup(a)
    \/ \E a \in Accounts : \E grn \in DOMAIN cgroups[a] : UserRenameGroup(a, grn)
    \/ \E a \in Accounts : \E grn \in DOMAIN cgroups[a] : UserDeleteGroup(a, grn)
    \/ Tick

\* ------------------------------------------------------------ the script
\* lines 150-161: the configuration is loaded, one Contacts object per account
\* fetches its snapshot, and args.init selects the mode
Begin(m) ==
    /\ mode' = m
    /\ pc' = IF m = "init" THEN "init_check" ELSE "check"
    /\ exitcode' = -1
    /\ info' = [a \in Accounts |-> Snapshot(people[a])]
    /\ info_group' = [a \in Accounts |-> Snapshot(cgroups[a])]
    /\ all_sync_tags' = {}
    /\ todel' = {}
    /\ added' = {}
    /\ work' = <<>>
    /\ cur' = NoCur
    /\ t2aru' = <<>>
    /\ done' = {}
    /\ ncalls' = 0
    /\ lastcall' = NoCall
    /\ pre' = [people |-> people, cgroups |-> cgroups, last |-> last]
    /\ UNCHANGED <<store, last, issued, budget>>

StartRun(m) ==
    /\ pc = "idle"
    /\ Begin(m)
    /\ UNCHANGED <<clock, prev>>

\* the process has ended, however it ended
Ended == pc \in {"done", "exited", "aborted", "crashed"}

\* the script is started again in normal mode, later, by cron or by hand,
\* without a user having changed anything since the run before ended
RunAgain ==
    /\ Ended
    /\ mode = "normal"
    /\ prev = NoPrev
    /\ prev' = [how |-> pc, ncalls |-> ncalls, pre |-> pre]
    /\ clock' = clock + 1
    /\ Begin("normal")

\* the frame of a step of the script that issues no remote write
NoWrite == UNCHANGED <<store, cache, issued, ncalls, lastcall>>
Frame == UNCHANGED <<last, clock, budget, mode, pre, prev>>

\* sys.exit(code): the process ends
Exit(code) ==
    /\ pc' = "exited"
    /\ exitcode' = code

\* an exception nothing catches ends the process: "aborted" when a remote
\* call raised it, "crashed" when the script's own code did
Raise(how) ==
    /\ pc' = how
    /\ exitcode' = -1

\* ---------------------------------------------------- calls on an account
Call(op, a, key, tag, mem) ==
    /\ ncalls' = ncalls + 1
    /\ lastcall' = [op |-> op, acc |-> a, key |-> key, tag |-> tag, mem |-> mem]

\* acc.update_tag(rn, tag)
CallUpdateTag(a, rn, tag) ==
    /\ people' = [people EXCEPT ![a][rn] = [@ EXCEPT !.tag = tag, !.updated = clock]]
    /\ info' = [info EXCEPT ![a][rn] = [@ EXCEPT !.tag = tag, !.updated = clock]]
    /\ issued' = issued \cup {tag}
    /\ Call("update_tag", a, rn, tag, {})
    /\ UNCHANGED <<cgroups, info_group>>

\* acc.add(body): the new contact's resource name is NextRn(people[a])
CallAdd(a, p) ==
    /\ people' = [people EXCEPT ![a] = @ @@ (NextRn(@) :> ContactRec(p, clock))]
    /\ info' = [info EXCEPT ![a] =
            @ @@ (NextRn(people[a]) :> InfoRec(ContactRec(p, clock)))]
    /\ issued' = issued \cup ({p.tag} \ {NoTag})
    /\ Call("add", a, NextRn(people[a]), p.tag, p.mem)
    /\ UNCHANGED <<cgroups, info_group>>

\* acc.update(tag, body): the contact bearing the tag takes the body; nothing
\* happens in an account that has no contact bearing the tag
CallUpdate(a, tag, p) ==
    LET rn == TagToRn(info[a], tag)
    IN  /\ IF rn # 0 /\ rn \in DOMAIN people[a]
           THEN /\ people' = [people EXCEPT ![a][rn] = ContactRec(p, clock)]
                /\ info' = [info EXCEPT ![a][rn] = InfoRec(ContactRec(p, clock))]
           ELSE UNCHANGED <<people, info>>
        /\ issued' = issued \cup ({p.tag} \ {NoTag})
        /\ Call("update", a, rn, tag, p.mem)
        /\ UNCHANGED <<cgroups, info_group>>

\* acc.delete(tag): no-op without a contact bearing the tag; the cached
\* snapshot keeps the record until get_info()
CallDelete(a, tag) ==
    LET rn == TagToRn(info[a], tag)
    IN  /\ people' = [people EXCEPT ![a] = Remove(@, rn)]
        /\ Call("delete", a, rn, tag, {})
        /\ UNCHANGED <<cgroups, cache, issued>>

\* acc.update_contactGroup_tag(rn, tag)
CallUpdateGroupTag(a, grn, tag) ==
    /\ cgroups' = [cgroups EXCEPT ![a][grn] = [@ EXCEPT !.tag = tag, !.updated = clock]]
    /\ info_group' = [info_group EXCEPT ![a][grn] =
            [@ EXCEPT !.tag = tag, !.updated = clock]]
    /\ issued' = issued \cup {tag}
    /\ Call("update_group_tag", a, grn, tag, {})
    /\ UNCHANGED <<people, info>>

\* other.add_contactGroup(body)
CallAddGroup(a, p) ==
    /\ cgroups' = [cgroups EXCEPT ![a] = @ @@ (NextGroupRn(@, a) :> GroupRec(p, clock))]
    /\ info_group' = [info_group EXCEPT ![a] =
            @ @@ (NextGroupRn(cgroups[a], a) :> GroupRec(p, clock))]
    /\ issued' = issued \cup ({p.tag} \ {NoTag})
    /\ Call("add_group", a, NextGroupRn(cgroups[a], a), p.tag, {})
    /\ UNCHANGED <<people, info>>

\* otheracc.update_contactGroup(tag, body)
CallUpdateGroup(a, tag, p) ==
    LET grn == TagToRn(info_group[a], tag)
    IN  /\ IF grn # 0 /\ grn \in DOMAIN cgroups[a]
           THEN /\ cgroups' = [cgroups EXCEPT ![a][grn] = GroupRec(p, clock)]
                /\ info_group' = [info_group EXCEPT ![a][grn] = GroupRec(p, clock)]
           ELSE UNCHANGED <<cgroups, info_group>>
        /\ issued' = issued \cup ({p.tag} \ {NoTag})
        /\ Call("update_group", a, grn, tag, {})
        /\ UNCHANGED <<people, info>>

\* acc.delete_contactGroup(tag)
CallDeleteGroup(a, tag) ==
    LET grn == TagToRn(info_group[a], tag)
    IN  /\ cgroups' = [cgroups EXCEPT ![a] = Remove(@, grn)]
        /\ people' = [people EXCEPT ![a] = DropGroup(@, grn)]
        /\ Call("delete_group", a, grn, tag, {})
        /\ UNCHANGED <<cache, issued>>

\* acc.get_info() on every account
CallGetInfo ==
    /\ info' = [a \in Accounts |-> Snapshot(people[a])]
    /\ info_group' = [a \in Accounts |-> Snapshot(cgroups[a])]
    /\ UNCHANGED <<store, issued, ncalls, lastcall>>

\* ------------------------------------------------------------------ new_tag
\* What random.choices can draw: any tag but one that a remote record bore
\* without this process knowing it (26^20 tags make that draw negligible).
NewTagDraws == {t \in Tags : t \notin issued \/ t \in all_sync_tags}

\* the first draw is returned, the while loop of line 27 left out
NewTagFirstDraw == NewTagDraws

\* new_tag(): draws again while the tag is in all_sync_tags
NewTag == {t \in NewTagDraws : t \notin all_sync_tags}

\* duplicates(ls): the elements seen a second time
Duplicates(ls) ==
    {ls[i] : i \in {k \in 1..Len(ls) : \E j \in 1..(k - 1) : ls[j] = ls[k]}}

\* the names of acc.info.values(), in the order of the snapshot
NamesOf(f) == [i \in 1..Len(SetToSeq(DOMAIN f)) |-> f[SetToSeq(DOMAIN f)[i]].name]

\* ------------------------------------------------------------- --init mode
\* the duplicates are looked for among the tags instead of the names
HasDuplicateTags(a) ==
    Duplicates([i \in 1..Len(SetToSeq(DOMAIN info[a])) |->
                    info[a][SetToSeq(DOMAIN info[a])[i]].tag]) # {}

\* lines 164-173
HasDuplicates(a) == Duplicates(NamesOf(info[a])) # {}

InitDuplicates ==
    /\ pc = "init_check"
    /\ \E a \in Accounts : HasDuplicates(a)
    /\ Exit(1)
    /\ NoWrite /\ Frame /\ UNCHANGED locals

InitNoDuplicates ==
    /\ pc = "init_check"
    /\ \A a \in Accounts : ~HasDuplicates(a)
    /\ pc' = "init_acc"
    /\ cur' = [acc |-> 0, i |-> 1]
    /\ NoWrite /\ Frame
    /\ UNCHANGED <<exitcode, all_sync_tags, todel, added, work, t2aru, done>>

\* line 177: the next account, or the end of the loop
InitAccount ==
    /\ pc = "init_acc"
    /\ IF cur.i > Len(Con)
       THEN pc' = "save" /\ UNCHANGED <<cur, work>>
       ELSE /\ pc' = "init_item"
            /\ cur' = [acc |-> Con[cur.i], i |-> cur.i]
            /\ work' = SetToSeq(DOMAIN info[Con[cur.i]])
    /\ NoWrite /\ Frame
    /\ UNCHANGED <<exitcode, all_sync_tags, todel, added, t2aru, done>>

\* line 181: the account's contacts are exhausted
InitAccountDone ==
    /\ pc = "init_item"
    /\ work = <<>>
    /\ pc' = "init_acc"
    /\ cur' = [acc |-> 0, i |-> cur.i + 1]
    /\ NoWrite /\ Frame
    /\ UNCHANGED <<exitcode, all_sync_tags, todel, added, work, t2aru, done>>

\* lines 182-183: the name was synced from an earlier account
InitSkip ==
    /\ pc = "init_item"
    /\ work # <<>>
    /\ info[cur.acc][Head(work)].name \in done
    /\ work' = Tail(work)
    /\ NoWrite /\ Frame
    /\ UNCHANGED <<pc, exitcode, all_sync_tags, todel, added, cur, t2aru, done>>

\* lines 185-188: tag the contact if it has no tag, and fetch it
InitTag ==
    /\ pc = "init_item"
    /\ work # <<>>
    /\ LET rn == Head(work)
           p == info[cur.acc][rn]
       IN  /\ p.name \notin done
           /\ IF p.tag = NoTag
              THEN \E t \in NewTag :
                     /\ all_sync_tags' = all_sync_tags \cup {t}
                     /\ CallUpdateTag(cur.acc, rn, t)
              ELSE /\ UNCHANGED all_sync_tags
                   /\ NoWrite
           /\ cur' = [acc |-> cur.acc, i |-> cur.i, rn |-> rn, name |-> p.name,
                      tag |-> people'[cur.acc][rn].tag,
                      newcontact |-> Payload(people'[cur.acc][rn]), j |-> 1]
    /\ pc' = "init_other"
    /\ Frame
    /\ UNCHANGED <<exitcode, todel, added, work, t2aru, done>>

\* lines 189-191 and 198: past the last account, or the account itself
InitOtherSkip ==
    /\ pc = "init_other"
    /\ IF cur.j > Len(Con)
       THEN /\ done' = done \cup {cur.name}
            /\ work' = Tail(work)
            /\ pc' = "init_item"
            /\ UNCHANGED cur
       ELSE /\ Con[cur.j] = cur.acc
            /\ cur' = [cur EXCEPT !.j = @ + 1]
            /\ UNCHANGED <<done, work, pc>>
    /\ NoWrite /\ Frame
    /\ UNCHANGED <<exitcode, all_sync_tags, todel, added, t2aru>>

\* lines 192-194: a contact of that name exists there: tag it
InitOtherTag ==
    /\ pc = "init_other"
    /\ cur.j <= Len(Con)
    /\ Con[cur.j] # cur.acc
    /\ NameToRn(info[Con[cur.j]], cur.name) # 0
    /\ CallUpdateTag(Con[cur.j], NameToRn(info[Con[cur.j]], cur.name), cur.tag)
    /\ pc' = "init_update"
    /\ Frame
    /\ UNCHANGED <<exitcode, locals>>

\* line 195: and push the source's body into it
InitOtherUpdate ==
    /\ pc = "init_update"
    /\ CallUpdate(Con[cur.j], cur.tag, cur.newcontact)
    /\ cur' = [cur EXCEPT !.j = @ + 1]
    /\ pc' = "init_other"
    /\ Frame
    /\ UNCHANGED <<exitcode, all_sync_tags, todel, added, work, t2aru, done>>

\* the contact is created whether or not the name exists there
InitOtherAddAlways ==
    /\ pc = "init_other"
    /\ cur.j <= Len(Con)
    /\ Con[cur.j] # cur.acc
    /\ CallAdd(Con[cur.j], cur.newcontact)
    /\ cur' = [cur EXCEPT !.j = @ + 1]
    /\ Frame
    /\ UNCHANGED <<pc, exitcode, all_sync_tags, todel, added, work, t2aru, done>>

\* line 197: no contact of that name there: create it
InitOtherAdd ==
    /\ pc = "init_other"
    /\ cur.j <= Len(Con)
    /\ Con[cur.j] # cur.acc
    /\ NameToRn(info[Con[cur.j]], cur.name) = 0
    /\ CallAdd(Con[cur.j], cur.newcontact)
    /\ cur' = [cur EXCEPT !.j = @ + 1]
    /\ Frame
    /\ UNCHANGED <<pc, exitcode, all_sync_tags, todel, added, work, t2aru, done>>

\* ------------------------------------------------------------- normal mode
\* lines 215-222
NoSyncTags(a) == \A rn \in DOMAIN info[a] : info[a][rn].tag = NoTag

CheckNoSyncTags ==
    /\ pc = "check"
    /\ \E a \in Accounts : NoSyncTags(a)
    /\ Exit(2)
    /\ NoWrite /\ Frame /\ UNCHANGED locals

\* save_config is called before the phases instead of after them
CheckPassedSaving ==
    /\ pc = "check"
    /\ \A a \in Accounts : ~NoSyncTags(a)
    /\ pc' = "g_del"
    /\ last' = clock + 1
    /\ NoWrite
    /\ UNCHANGED <<clock, budget, mode, pre, prev, exitcode, locals>>

CheckPassed ==
    /\ pc = "check"
    /\ \A a \in Accounts : ~NoSyncTags(a)
    /\ pc' = "g_del"
    /\ NoWrite /\ Frame
    /\ UNCHANGED <<exitcode, locals>>

\* lines 237-247 and 340-347: the tags some account lacks, given the full
\* set of tags and the accounts' snapshots
ToDelete(all, f) == UNION {all \ TagsOf(f[a]) : a \in Accounts}

\* the delete calls reach the first account only
DeleteCallsFirstAccount(td) ==
    [k \in 1..Len(SetToSeq(td)) |-> <<Con[1], SetToSeq(td)[k]>>]

\* lines 249-252 and 349-352: one delete call per account and tag
DeleteCalls(td) ==
    LET tags == SetToSeq(td)
        n == Len(tags)
    IN  [k \in 1..(Len(Con) * n) |->
            <<Con[((k - 1) \div n) + 1], tags[((k - 1) % n) + 1]>>]

\* the records of account a's snapshot as <<tag, account, rn, updated>>
RecsOf(f, a) ==
    LET rns == SetToSeq(DOMAIN f[a])
    IN  [k \in 1..Len(rns) |-> <<f[a][rns[k]].tag, a, rns[k], f[a][rns[k]].updated>>]

RECURSIVE AllRecs(_, _)
AllRecs(f, i) == IF i > Len(Con) THEN <<>> ELSE RecsOf(f, Con[i]) \o AllRecs(f, i + 1)

\* the test (acc, rn) not in added is left out
IsCandidateIgnoringAdded(x, lastupdate, add) == x[4] > lastupdate

\* lines 305-310 and 449-454: modified since the last run and not just added
IsCandidate(x, lastupdate, add) == x[4] > lastupdate /\ <<x[2], x[3]>> \notin add

Candidates(f, lastupdate, add) ==
    SelectSeq(AllRecs(f, 1), LAMBDA x : IsCandidate(x, lastupdate, add))

\* lines 311-312 and 455-456: tag -> candidates, and the keys in insertion order
T2aruOf(c) ==
    [t \in {c[k][1] : k \in 1..Len(c)} |-> SelectSeq(c, LAMBDA x : x[1] = t)]

KeysOf(c) ==
    LET first == SetToSeq({k \in 1..Len(c) : \A j \in 1..(k - 1) : c[j][1] # c[k][1]})
    IN  [n \in 1..Len(first) |-> c[first[n]][1]]

\* lines 317 and 461: max(val, key=updated), the first of the maximal ones
Newest(val) ==
    val[Min({k \in 1..Len(val) : \A j \in 1..Len(val) : val[j][4] <= val[k][4]})]

\* ----------------------------------------------------- ContactGroup sync
\* lines 228-248
GroupDeleteCheck ==
    /\ pc = "g_del"
    /\ todel' = ToDelete(UNION {TagsOf(info_group[a]) : a \in Accounts}, info_group)
    /\ IF todel' = {}
       THEN pc' = "g_add" /\ work' = <<>>
       ELSE pc' = "g_del_call" /\ work' = DeleteCalls(todel')
    /\ added' = {}
    /\ cur' = [acc |-> 0, i |-> 1]
    /\ NoWrite /\ Frame
    /\ UNCHANGED <<exitcode, all_sync_tags, t2aru, done>>

\* line 252
GroupDeleteCall ==
    /\ pc = "g_del_call"
    /\ work # <<>>
    /\ CallDeleteGroup(Head(work)[1], Head(work)[2])
    /\ work' = Tail(work)
    /\ Frame
    /\ UNCHANGED <<pc, exitcode, all_sync_tags, todel, added, cur, t2aru, done>>

\* lines 257-259
GroupRefresh ==
    /\ pc = "g_del_call"
    /\ work = <<>>
    /\ CallGetInfo
    /\ pc' = "g_add"
    /\ Frame
    /\ UNCHANGED <<exitcode, locals>>

\* lines 265-270: the next account and its untagged groups
GroupAddAccount ==
    /\ pc = "g_add"
    /\ IF cur.i > Len(Con)
       THEN pc' = "g_upd" /\ UNCHANGED <<cur, work>>
       ELSE /\ pc' = "g_add_item"
            /\ cur' = [acc |-> Con[cur.i], i |-> cur.i]
            /\ work' = SetToSeq(Untagged(info_group[Con[cur.i]]))
    /\ NoWrite /\ Frame
    /\ UNCHANGED <<exitcode, all_sync_tags, todel, added, t2aru, done>>

GroupAddAccountDone ==
    /\ pc = "g_add_item"
    /\ work = <<>>
    /\ pc' = "g_add"
    /\ cur' = [acc |-> 0, i |-> cur.i + 1]
    /\ NoWrite /\ Frame
    /\ UNCHANGED <<exitcode, all_sync_tags, todel, added, work, t2aru, done>>

\* lines 276-281
GroupAddTag ==
    /\ pc = "g_add_item"
    /\ work # <<>>
    /\ \E t \in NewTag :
         /\ all_sync_tags' = all_sync_tags \cup {t}
         /\ CallUpdateGroupTag(cur.acc, Head(work), t)
         /\ cur' = [acc |-> cur.acc, i |-> cur.i, rn |-> Head(work), tag |-> t,
                    newcontact |-> GroupPayload(cgroups'[cur.acc][Head(work)]),
                    j |-> 1]
    /\ added' = added \cup {<<cur.acc, Head(work)>>}
    /\ pc' = "g_add_other"
    /\ Frame
    /\ UNCHANGED <<exitcode, todel, work, t2aru, done>>

\* lines 284-286
GroupAddOtherSkip ==
    /\ pc = "g_add_other"
    /\ IF cur.j > Len(Con)
       THEN /\ work' = Tail(work)
            /\ pc' = "g_add_item"
            /\ UNCHANGED cur
       ELSE /\ Con[cur.j] = cur.acc
            /\ cur' = [cur EXCEPT !.j = @ + 1]
            /\ UNCHANGED <<work, pc>>
    /\ NoWrite /\ Frame
    /\ UNCHANGED <<exitcode, all_sync_tags, todel, added, t2aru, done>>

\* lines 289-296
GroupAddOther ==
    /\ pc = "g_add_other"
    /\ cur.j <= Len(Con)
    /\ Con[cur.j] # cur.acc
    /\ CallAddGroup(Con[cur.j], cur.newcontact)
    /\ added' = added \cup {<<Con[cur.j], NextGroupRn(cgroups[Con[cur.j]], Con[cur.j])>>}
    /\ cur' = [cur EXCEPT !.j = @ + 1]
    /\ Frame
    /\ UNCHANGED <<pc, exitcode, all_sync_tags, todel, work, t2aru, done>>

\* lines 300-312
GroupUpdateBuild ==
    /\ pc = "g_upd"
    /\ t2aru' = T2aruOf(Candidates(info_group, last, added))
    /\ work' = KeysOf(Candidates(info_group, last, added))
    /\ pc' = "g_upd_item"
    /\ NoWrite /\ Frame
    /\ UNCHANGED <<exitcode, all_sync_tags, todel, added, cur, done>>

\* lines 315-320
GroupUpdateItem ==
    /\ pc = "g_upd_item"
    /\ work # <<>>
    /\ LET newest == Newest(t2aru[Head(work)])
       IN  cur' = [acc |-> newest[2], i |-> 0, rn |-> newest[3], tag |-> Head(work),
                   newcontact |-> GroupPayload(cgroups[newest[2]][newest[3]]),
                   j |-> 1]
    /\ pc' = "g_upd_other"
    /\ NoWrite /\ Frame
    /\ UNCHANGED <<exitcode, all_sync_tags, todel, added, work, t2aru, done>>

GroupUpdateDone ==
    /\ pc = "g_upd_item"
    /\ work = <<>>
    /\ pc' = "c_del"
    /\ NoWrite /\ Frame
    /\ UNCHANGED <<exitcode, locals>>

\* lines 321-323
GroupUpdateOtherSkip ==
    /\ pc = "g_upd_other"
    /\ IF cur.j > Len(Con)
       THEN /\ work' = Tail(work)
            /\ pc' = "g_upd_item"
            /\ UNCHANGED cur
       ELSE /\ Con[cur.j] = cur.acc
            /\ cur' = [cur EXCEPT !.j = @ + 1]
            /\ UNCHANGED <<work, pc>>
    /\ NoWrite /\ Frame
    /\ UNCHANGED <<exitcode, all_sync_tags, todel, added, t2aru, done>>

\* line 325
GroupUpdateOther ==
    /\ pc = "g_upd_other"
    /\ cur.j <= Len(Con)
    /\ Con[cur.j] # cur.acc
    /\ CallUpdateGroup(Con[cur.j], cur.tag, cur.newcontact)
    /\ cur' = [cur EXCEPT !.j = @ + 1]
    /\ Frame
    /\ UNCHANGED <<pc, exitcode, all_sync_tags, todel, added, work, t2aru, done>>

\* ------------------------------------------------------------ Contact sync
\* lines 333-348
ContactDeleteCheck ==
    /\ pc = "c_del"
    /\ all_sync_tags' = all_sync_tags \cup UNION {TagsOf(info[a]) : a \in Accounts}
    /\ todel' = ToDelete(all_sync_tags', info)
    /\ IF todel' = {}
       THEN pc' = "c_add" /\ work' = <<>>
       ELSE pc' = "c_del_call" /\ work' = DeleteCalls(todel')
    /\ added' = {}
    /\ cur' = [acc |-> 0, i |-> 1]
    /\ NoWrite /\ Frame
    /\ UNCHANGED <<exitcode, t2aru, done>>

\* line 352
ContactDeleteCall ==
    /\ pc = "c_del_call"
    /\ work # <<>>
    /\ CallDelete(Head(work)[1], Head(work)[2])
    /\ work' = Tail(work)
    /\ Frame
    /\ UNCHANGED <<pc, exitcode, all_sync_tags, todel, added, cur, t2aru, done>>

\* lines 356-358
ContactRefresh ==
    /\ pc = "c_del_call"
    /\ work = <<>>
    /\ CallGetInfo
    /\ pc' = "c_add"
    /\ Frame
    /\ UNCHANGED <<exitcode, locals>>

\* lines 363-368
ContactAddAccount ==
    /\ pc = "c_add"
    /\ IF cur.i > Len(Con)
       THEN pc' = "c_upd" /\ UNCHANGED <<cur, work>>
       ELSE /\ pc' = "c_add_item"
            /\ cur' = [acc |-> Con[cur.i], i |-> cur.i]
            /\ work' = SetToSeq(Untagged(info[Con[cur.i]]))
    /\ NoWrite /\ Frame
    /\ UNCHANGED <<exitcode, all_sync_tags, todel, added, t2aru, done>>

ContactAddAccountDone ==
    /\ pc = "c_add_item"
    /\ work = <<>>
    /\ pc' = "c_add"
    /\ cur' = [acc |-> 0, i |-> cur.i + 1]
    /\ NoWrite /\ Frame
    /\ UNCHANGED <<exitcode, all_sync_tags, todel, added, work, t2aru, done>>

\* lines 391-399 and 472-480: the sync tags of the contact's labels, None for
\* a label that has none
GroupTagsOf(a, p) ==
    LET groupRNs == SetToSeq(p.mem \ {MyContacts})
    IN  [k \in 1..Len(groupRNs) |-> RnToTag(info_group[a], groupRNs[k])]

\* lines 402-406 and 483-487: only the default membership stays
StripLabels(p) == [p EXCEPT !.mem = @ \cap {MyContacts}]

\* lines 374-406
ContactAddTag ==
    /\ pc = "c_add_item"
    /\ work # <<>>
    /\ \E t \in NewTag :
         /\ all_sync_tags' = all_sync_tags \cup {t}
         /\ CallUpdateTag(cur.acc, Head(work), t)
         /\ cur' = [acc |-> cur.acc, i |-> cur.i, rn |-> Head(work), tag |-> t,
                    newcontact |-> StripLabels(Payload(people'[cur.acc][Head(work)])),
                    groupTags |-> GroupTagsOf(cur.acc, Payload(people'[cur.acc][Head(work)])),
                    j |-> 1]
    /\ added' = added \cup {<<cur.acc, Head(work)>>}
    /\ pc' = "c_add_other"
    /\ Frame
    /\ UNCHANGED <<exitcode, todel, work, t2aru, done>>

\* lines 411-414
ContactAddOtherSkip ==
    /\ pc = "c_add_other"
    /\ IF cur.j > Len(Con)
       THEN /\ work' = Tail(work)
            /\ pc' = "c_add_item"
            /\ UNCHANGED cur
       ELSE /\ Con[cur.j] = cur.acc
            /\ cur' = [cur EXCEPT !.j = @ + 1]
            /\ UNCHANGED <<work, pc>>
    /\ NoWrite /\ Frame
    /\ UNCHANGED <<exitcode, all_sync_tags, todel, added, t2aru, done>>

\* lines 422 and 498: other.tag_to_rn_contactGroup for each tag, 0 for None
TargetRns(other, groupTags) ==
    [k \in 1..Len(groupTags) |-> TagToRn(info_group[other], groupTags[k])]

\* lines 425-427: remove_prefix(None, ...) raises AttributeError
AddCrashes(other, groupTags) ==
    \E k \in 1..Len(groupTags) : TargetRns(other, groupTags)[k] = 0

\* the translated labels are not attached to the copy
AddCopyWithoutLabels(other, p, groupTags) == p

\* lines 419-433: the copy pushed to another account by the addition phase
AddCopy(other, p, groupTags) ==
    [p EXCEPT !.mem = @ \cup Range(TargetRns(other, groupTags))]

ContactAddOtherCrash ==
    /\ pc = "c_add_other"
    /\ cur.j <= Len(Con)
    /\ Con[cur.j] # cur.acc
    /\ AddCrashes(Con[cur.j], cur.groupTags)
    /\ Raise("crashed")
    /\ NoWrite /\ Frame /\ UNCHANGED locals

\* lines 418-439
ContactAddOther ==
    /\ pc = "c_add_other"
    /\ cur.j <= Len(Con)
    /\ Con[cur.j] # cur.acc
    /\ ~AddCrashes(Con[cur.j], cur.groupTags)
    /\ CallAdd(Con[cur.j], AddCopy(Con[cur.j], cur.newcontact, cur.groupTags))
    /\ added' = added \cup {<<Con[cur.j], NextRn(people[Con[cur.j]])>>}
    /\ cur' = [cur EXCEPT !.j = @ + 1]
    /\ Frame
    /\ UNCHANGED <<pc, exitcode, all_sync_tags, todel, work, t2aru, done>>

\* lines 444-456
ContactUpdateBuild ==
    /\ pc = "c_upd"
    /\ t2aru' = T2aruOf(Candidates(info, last, added))
    /\ work' = KeysOf(Candidates(info, last, added))
    /\ pc' = "c_upd_item"
    /\ NoWrite /\ Frame
    /\ UNCHANGED <<exitcode, all_sync_tags, todel, added, cur, done>>

\* lines 459-487
ContactUpdateItem ==
    /\ pc = "c_upd_item"
    /\ work # <<>>
    /\ LET newest == Newest(t2aru[Head(work)])
           contact == Payload(people[newest[2]][newest[3]])
       IN  cur' = [acc |-> newest[2], i |-> 0, rn |-> newest[3], tag |-> Head(work),
                   newcontact |-> StripLabels(contact),
                   groupTags |-> GroupTagsOf(newest[2], contact),
                   j |-> 1]
    /\ pc' = "c_upd_other"
    /\ NoWrite /\ Frame
    /\ UNCHANGED <<exitcode, all_sync_tags, todel, added, work, t2aru, done>>

\* the script goes through the ContactGroup sync once more after the contacts
ContactUpdateDoneGroupsAgain ==
    /\ pc = "c_upd_item"
    /\ work = <<>>
    /\ pc' = "g_del"
    /\ NoWrite /\ Frame
    /\ UNCHANGED <<exitcode, locals>>

ContactUpdateDone ==
    /\ pc = "c_upd_item"
    /\ work = <<>>
    /\ pc' = "save"
    /\ NoWrite /\ Frame
    /\ UNCHANGED <<exitcode, locals>>

\* lines 489-491
ContactUpdateOtherSkip ==
    /\ pc = "c_upd_other"
    /\ IF cur.j > Len(Con)
       THEN /\ work' = Tail(work)
            /\ pc' = "c_upd_item"
            /\ UNCHANGED cur
       ELSE /\ Con[cur.j] = cur.acc
            /\ cur' = [cur EXCEPT !.j = @ + 1]
            /\ UNCHANGED <<work, pc>>
    /\ NoWrite /\ Frame
    /\ UNCHANGED <<exitcode, all_sync_tags, todel, added, t2aru, done>>

\* the memberships appended for the accounts before this one are still there,
\* as when the copy is the caller's object and not a deepcopy
UpdateCopyAliased(other, p, groupTags) ==
    [p EXCEPT !.mem = @ \cup
        UNION {Range(TargetRns(o, groupTags)) \ {0} : o \in {x \in Accounts : x <= other}}]

\* lines 495-508: a label without a group in the other account is skipped
UpdateCopy(other, p, groupTags) ==
    [p EXCEPT !.mem = @ \cup (Range(TargetRns(other, groupTags)) \ {0})]

\* lines 496 and 510: the inner loop "for tag in groupTags" rebinds the outer
\* loop's variable tag, so update is called with the last label's tag
UpdateCallTag(tag, groupTags) ==
    IF Len(groupTags) > 0 THEN groupTags[Len(groupTags)] ELSE tag

\* lines 494-512
ContactUpdateOther ==
    /\ pc = "c_upd_other"
    /\ cur.j <= Len(Con)
    /\ Con[cur.j] # cur.acc
    /\ CallUpdate(Con[cur.j], UpdateCallTag(cur.tag, cur.groupTags),
                  UpdateCopy(Con[cur.j], cur.newcontact, cur.groupTags))
    /\ cur' = [cur EXCEPT !.j = @ + 1]
    /\ Frame
    /\ UNCHANGED <<pc, exitcode, all_sync_tags, todel, added, work, t2aru, done>>

\* ------------------------------------------------------------- save_config
\* lines 93-104, called at lines 210 and 515; the process then exits with 0
\* the file is written back with the watermark it was loaded with
SaveConfigKeepingLast ==
    /\ pc = "save"
    /\ pc' = "done"
    /\ exitcode' = 0
    /\ NoWrite
    /\ UNCHANGED <<last, clock, budget, mode, pre, prev, locals>>

SaveConfig ==
    /\ pc = "save"
    /\ last' = clock + 1
    /\ pc' = "done"
    /\ exitcode' = 0
    /\ NoWrite
    /\ UNCHANGED <<clock, budget, mode, pre, prev, locals>>

\* the positions at which the next statement calls the remote store
ItemPcs == {"init_item", "g_add_item", "g_upd_item", "c_add_item", "c_upd_item"}
OtherPcs == {"init_other", "g_add_other", "g_upd_other", "c_add_other", "c_upd_other"}

NextCallsRemote ==
    \/ pc \in ItemPcs /\ work # <<>>
    \/ pc \in OtherPcs /\ cur.j <= Len(Con) /\ Con[cur.j] # cur.acc
    \/ pc \in {"init_update", "g_del_call", "c_del_call"}

\* a remote call raises (network, authorization, quota): the run aborts
Fail ==
    /\ NextCallsRemote
    /\ Raise("aborted")
    /\ NoWrite /\ Frame /\ UNCHANGED locals

\* ------------------------------------------------------------ specification
Empty == [a \in Accounts |-> <<>>]

\* accounts that were never linked, and a configuration file fresh from
\* load_config's default (last = 1972)
Fresh ==
    /\ people = Empty
    /\ cgroups = Empty
    /\ last = 0
    /\ clock = 1
    /\ issued = {}

\* accounts that earlier runs linked: two contacts and one label in sync
Linked ==
    /\ people = [a \in Accounts |->
            (1 :> [tag |-> 1, name |-> "Ann", updated |-> 0, body |-> <<0, 0>>,
                   mem |-> {MyContacts}]) @@
            (2 :> [tag |-> 2, name |-> "Bob", updated |-> 0, body |-> <<0, 0>>,
                   mem |-> {MyContacts}])]
    /\ cgroups = [a \in Accounts |-> (GroupRn(a, 1) :>
            [tag |-> 3, name |-> <<0, 0>>, updated |-> 0])]
    /\ last = 1
    /\ clock = 2
    /\ issued = {1, 2, 3}

Init ==
    /\ Fresh \/ Linked
    /\ info = Empty
    /\ info_group = Empty
    /\ budget = MaxUserOps
    /\ pc = "idle"
    /\ mode = "normal"
    /\ exitcode = -1
    /\ all_sync_tags = {}
    /\ todel = {}
    /\ added = {}
    /\ work = <<>>
    /\ cur = NoCur
    /\ t2aru = <<>>
    /\ done = {}
    /\ ncalls = 0
    /\ lastcall = NoCall
    /\ pre = [people |-> people, cgroups |-> cgroups, last |-> last]
    /\ prev = NoPrev

Next ==
    \/ User
    \/ \E m \in {"init", "normal"} : StartRun(m)
    \/ InitDuplicates
    \/ InitNoDuplicates
    \/ InitAccount
    \/ InitAccountDone
    \/ InitSkip
    \/ InitTag
    \/ InitOtherSkip
    \/ InitOtherTag
    \/ InitOtherUpdate
    \/ InitOtherAdd
    \/ CheckNoSyncTags
    \/ CheckPassed
    \/ GroupDeleteCheck
    \/ GroupDeleteCall
    \/ GroupRefresh
    \/ GroupAddAccount
    \/ GroupAddAccountDone
    \/ GroupAddTag
    \/ GroupAddOtherSkip
    \/ GroupAddOther
    \/ GroupUpdateBuild
    \/ GroupUpdateItem
    \/ GroupUpdateDone
    \/ GroupUpdateOtherSkip
    \/ GroupUpdateOther
    \/ ContactDeleteCheck
    \/ ContactDeleteCall
    \/ ContactRefresh
    \/ ContactAddAccount
    \/ ContactAddAccountDone
    \/ ContactAddTag
    \/ ContactAddOtherSkip
    \/ ContactAddOtherCrash
    \/ ContactAddOther
    \/ ContactUpdateBuild
    \/ ContactUpdateItem
    \/ ContactUpdateDone
    \/ ContactUpdateOtherSkip
    \/ ContactUpdateOther
    \/ SaveConfig
    \/ Fail

Spec == Init /\ [][Next]_vars

\* the script run once and then once more
NextAgain == Next \/ RunAgain

SpecAgain == Init /\ [][NextAgain]_vars

\* ------------------------------------------------------------------ claims
Completed == pc = "done" /\ mode = "normal"

\* the replicated part of a contact (memberships aside) and of a group
Body(r) == <<r.name, r.body>>
GroupBody(r) == r.name

\* the records of f (account -> rn -> record) bearing tag t
Copies(f, t) == {x \in {<<a, rn>> : a \in Accounts, rn \in 1..9} \cup
                        {<<a, GroupRn(a, n)>> : a \in Accounts, n \in 1..9} :
                    x[2] \in DOMAIN f[x[1]] /\ f[x[1]][x[2]].tag = t}

\* the copies of t with the greatest updatedAt
Freshest(f, t) ==
    {x \in Copies(f, t) :
        \A y \in Copies(f, t) : f[y[1]][y[2]].updated <= f[x[1]][x[2]].updated}

AllTags(f) == UNION {TagsOf(f[a]) : a \in Accounts}

SameTagsEverywhere(f) == \A a \in Accounts : TagsOf(f[a]) = AllTags(f)

\* every copy of every tag of f carries the payload of a copy that was
\* freshest in f0 (or, for a tag new in f, the payload of the other copies)
FreshestPayload(f, f0, B(_)) ==
    \A t \in AllTags(f) :
        IF Copies(f0, t) # {}
        THEN \E src \in Freshest(f0, t) : \A x \in Copies(f, t) :
                B(f[x[1]][x[2]]) = B(f0[src[1]][src[2]])
        ELSE \A x, y \in Copies(f, t) : B(f[x[1]][x[2]]) = B(f[y[1]][y[2]])

\* C1: after a completed normal pass every tag of any replica is in every
\* replica, and all its copies carry the payload of the freshest copy.
C1_Converged ==
    Completed =>
        /\ SameTagsEverywhere(people) /\ SameTagsEverywhere(cgroups)
        /\ FreshestPayload(people, pre.people, Body)
        /\ FreshestPayload(cgroups, pre.cgroups, GroupBody)

\* the tags of f that some account lacks
Missing(f) == {t \in AllTags(f) : \E a \in Accounts : t \notin TagsOf(f[a])}

\* the script has just left a deletion phase (lines 260 and 359)
AfterGroupDeletion == mode = "normal" /\ pc = "g_add" /\ cur.i = 1
AfterContactDeletion == mode = "normal" /\ pc = "c_add" /\ cur.i = 1

\* C2: a tag that some replica lacks at the start of the pass is absent from
\* every replica once the deletion phase is over, for groups and for contacts.
C2_DeletionConverges ==
    /\ AfterGroupDeletion =>
         \A t \in Missing(pre.cgroups) : t \notin AllTags(cgroups)
    /\ AfterContactDeletion =>
         \A t \in Missing(pre.people) : t \notin AllTags(people)

C2_Witness ==
    /\ AfterContactDeletion
    /\ Missing(pre.people) # {}
    /\ \E a \in Accounts : TagsOf(pre.people[a]) # TagsOf(people[a])

\* the sync tags of the labels a contact of account a is in
MemTags(a, r) == {RnToTag(cgroups[a], g) : g \in r.mem \ {MyContacts}}

\* the records that had no tag when the pass started
NewIn(f0) == {x \in {<<a, rn>> : a \in Accounts, rn \in 1..9} \cup
                    {<<a, GroupRn(a, n)>> : a \in Accounts, n \in 1..9} :
                 x[2] \in DOMAIN f0[x[1]] /\ f0[x[1]][x[2]].tag = NoTag}

CopiesIn(f, b, t) == {x \in Copies(f, t) : x[1] = b}

\* the script has just left an addition phase (lines 297 and 440)
AfterGroupAddition == mode = "normal" /\ pc = "g_upd"
AfterContactAddition == mode = "normal" /\ pc = "c_upd"

\* C3: after the addition phase, every record that was untagged bears a new
\* tag and every other replica holds exactly one record bearing that tag,
\* with the source's payload and the source's labels translated by tag.
C3_AdditionPropagates ==
    /\ AfterGroupAddition =>
         \A x \in NewIn(pre.cgroups) :
            LET src == cgroups[x[1]][x[2]]
            IN  /\ src.tag # NoTag
                /\ \A b \in Accounts \ {x[1]} :
                     /\ Cardinality(CopiesIn(cgroups, b, src.tag)) = 1
                     /\ \A y \in CopiesIn(cgroups, b, src.tag) :
                          GroupBody(cgroups[b][y[2]]) = GroupBody(src)
    /\ AfterContactAddition =>
         \A x \in NewIn(pre.people) :
            LET src == people[x[1]][x[2]]
            IN  /\ src.tag # NoTag
                /\ \A b \in Accounts \ {x[1]} :
                     /\ Cardinality(CopiesIn(people, b, src.tag)) = 1
                     /\ \A y \in CopiesIn(people, b, src.tag) :
                          /\ Body(people[b][y[2]]) = Body(src)
                          /\ MyContacts \in people[b][y[2]].mem
                          /\ people[b][y[2]].mem \subseteq {MyContacts} \cup DOMAIN cgroups[b]
                          /\ MemTags(b, people[b][y[2]]) = MemTags(x[1], src)

C3_Witness ==
    /\ AfterContactAddition
    /\ \E x \in NewIn(pre.people) : people[x[1]][x[2]].mem # {MyContacts}
    /\ NewIn(pre.cgroups) # {}

\* the tags of f0 held by two or more accounts with different updatedAt
Diverged(f0) ==
    {t \in AllTags(f0) :
        /\ Cardinality({a \in Accounts : t \in TagsOf(f0[a])}) >= 2
        /\ \E x, y \in Copies(f0, t) : f0[x[1]][x[2]].updated # f0[y[1]][y[2]].updated}

\* every copy of t in f has the payload of a copy that was freshest in f0
LastWriterWins(f, f0, t, B(_)) ==
    \E src \in Freshest(f0, t) :
        \A x \in Copies(f, t) : B(f[x[1]][x[2]]) = B(f0[src[1]][src[2]])

\* the script has just left an update phase (lines 326 and 513)
AfterGroupUpdate == mode = "normal" /\ pc = "c_del"
AfterContactUpdate == mode = "normal" /\ pc = "save"

\* C4: after the update phase every replica holding a tag has the payload of
\* the replica whose updatedAt was greatest before the pass, for groups and
\* for contacts, with or without labels.
C4_LastWriterWins ==
    /\ AfterGroupUpdate =>
         \A t \in Diverged(pre.cgroups) : LastWriterWins(cgroups, pre.cgroups, t, GroupBody)
    /\ AfterContactUpdate =>
         \A t \in Diverged(pre.people) : LastWriterWins(people, pre.people, t, Body)

\* a contact body was pushed to account lastcall.acc
Pushed == lastcall.op \in {"add", "update"}

\* C5: no payload pushed to a replica, in any mode, names a label of another
\* replica: every membership is the default one or a group of the target.
C5_NoForeignMembership ==
    Pushed => \A g \in lastcall.mem \ {MyContacts, Starred} :
                 GroupOwner(g) = lastcall.acc

\* C6: a label without a mapping in the target does not abort the pass: the
\* contact is pushed with the default membership and without that label.
C6_MissingMappingIsNoError ==
    /\ pc # "crashed"
    /\ (mode = "normal" /\ Pushed) => MyContacts \in lastcall.mem

\* C7: the watermark keeps its value of before the run on every path but
\* the completed one, and every remote write precedes the save.
C7_WatermarkLast ==
    /\ pc # "done" => last = pre.last
    /\ pc = "done" => last = clock + 1 /\ exitcode = 0

C7_Witness == pc \in {"aborted", "crashed"} /\ ncalls > 0 /\ last = pre.last

\* two contacts of one account of f share a name
DuplicateNames(f) ==
    \E a \in Accounts : \E r1, r2 \in DOMAIN f[a] : r1 # r2 /\ f[a][r1].name = f[a][r2].name

\* an account of f has no tagged contact
Unlinked(f) == \E a \in Accounts : TagsOf(f[a]) = {}

Untouched ==
    /\ ncalls = 0
    /\ lastcall = NoCall
    /\ people = pre.people
    /\ cgroups = pre.cgroups
    /\ last = pre.last

\* C8: with a duplicated name --init exits with 1, with an account without a
\* tagged contact the normal mode exits with 2, and neither has issued a
\* remote write or moved the watermark.
C8_FatalBeforeMutation ==
    /\ (mode = "init" /\ pc \notin {"idle", "init_check"} /\ DuplicateNames(pre.people))
          => pc = "exited" /\ exitcode = 1 /\ Untouched
    /\ (mode = "normal" /\ pc \notin {"idle", "check"} /\ Unlinked(pre.people))
          => pc = "exited" /\ exitcode = 2 /\ Untouched
    /\ pc = "exited" => Untouched

C8_Witness == pc = "exited" /\ exitcode = 1 /\ mode = "init" /\ DuplicateNames(pre.people)

\* one replica still holds a tagged contact, another holds no contact at all
LastRecordDeleted(f) ==
    /\ \E a \in Accounts : TagsOf(f[a]) # {}
    /\ \E b \in Accounts : DOMAIN f[b] = {}

\* C9: when a user deleted the last contact of a replica, the normal pass
\* reaches the deletion phase and removes the tag from the other replicas.
C9_LastDeletionPropagates ==
    (mode = "normal" /\ pc \in {"done", "exited"} /\ LastRecordDeleted(pre.people))
        => AllTags(people) = {}

NamesIn(f) == {f[rn].name : rn \in DOMAIN f}

WithName(f, n) == {rn \in DOMAIN f : f[rn].name = n}

\* C10: after a completed --init every name of any replica is held by exactly
\* one contact in every replica, the contacts of one name bear one tag and
\* one payload, and the contacts that existed are still there, tagged.
C10_BootstrapLinksByName ==
    (mode = "init" /\ pc = "done") =>
        /\ \A a, b \in Accounts : \A n \in NamesIn(people[a]) :
              /\ Cardinality(WithName(people[b], n)) = 1
              /\ \A x \in WithName(people[a], n), y \in WithName(people[b], n) :
                    /\ people[a][x].tag # NoTag
                    /\ people[a][x].tag = people[b][y].tag
                    /\ Body(people[a][x]) = Body(people[b][y])
        /\ \A a \in Accounts : \A rn \in DOMAIN pre.people[a] :
              /\ rn \in DOMAIN people[a]
              /\ people[a][rn].name = pre.people[a][rn].name
        /\ \A a \in Accounts : NamesIn(people[a]) =
              UNION {NamesIn(pre.people[b]) : b \in Accounts}

\* --init found the name in a destination and updated that contact in place
C10_Witness ==
    /\ mode = "init" /\ pc = "done"
    /\ \E a, b \in Accounts : \E rn \in DOMAIN pre.people[a] :
          /\ a # b
          /\ pre.people[a][rn].tag = NoTag
          /\ pre.people[a][rn].name \in NamesIn(pre.people[b])
          /\ Body(people[a][rn]) # Body(pre.people[a][rn])
    /\ \E a \in Accounts : DOMAIN pre.people[a] # DOMAIN people[a]

\* the step calls new_tag() and attaches the tag it returned (lines 186-187,
\* 276-277 and 374-375)
NewTagStep ==
    /\ pc \in {"init_item", "g_add_item", "c_add_item"}
    /\ ncalls' = ncalls + 1
    /\ lastcall'.op \in {"update_tag", "update_group_tag"}

\* C11: within one run new_tag returns a tag that is not in all_sync_tags,
\* hence none it returned before, and the tag is in all_sync_tags afterwards;
\* the set only grows while the process lives.
C11_NeverReissued ==
    [][/\ NewTagStep =>
            /\ lastcall'.tag \notin all_sync_tags
            /\ lastcall'.tag \in all_sync_tags'
       /\ (pc # "idle" /\ ~Ended) => all_sync_tags \subseteq all_sync_tags']_vars

\* new_tag has been called twice in one run
C11_Witness ==
    /\ mode = "normal"
    /\ pc = "g_add_other"
    /\ lastcall.op = "update_group_tag"
    /\ Cardinality(all_sync_tags) = 2

\* the step issues the update call of the contact update phase (lines 510, 512)
ContactUpdateStep == pc = "c_upd_other" /\ ncalls' = ncalls + 1

\* the contacts the step changed, as <<account, rn>>
Changed ==
    {x \in {<<a, rn>> : a \in Accounts, rn \in 1..9} :
        /\ x[2] \in DOMAIN people[x[1]]
        /\ \/ x[2] \notin DOMAIN people'[x[1]]
           \/ people'[x[1]][x[2]] # people[x[1]][x[2]]}

\* C12: the contact update phase calls update under the tag of the contact it
\* propagates, the key of t2aru, for contacts with and without labels, and
\* the call changes no record but those bearing that tag.
C12_UpdateUnderOwnTag ==
    [][ContactUpdateStep =>
          /\ lastcall'.op = "update"
          /\ lastcall'.tag = cur.tag
          /\ cur.tag = Head(work)
          /\ \A x \in Changed : people[x[1]][x[2]].tag = cur.tag]_vars

\* the contact tags of the snapshots the deletion phase works on
SnapshotTags == UNION {TagsOf(info[a]) : a \in Accounts}

\* C13: the contact deletion phase issues delete calls only for tags that a
\* contact of some replica bears when the phase starts, also after the group
\* addition phase of the same pass allocated tags.
C13_DeleteOnlyBorneTags ==
    (mode = "normal" /\ pc = "c_del_call") =>
        /\ todel \subseteq SnapshotTags
        /\ lastcall.op = "delete" => lastcall.tag \in SnapshotTags

\* the positions of the addition and update phases, where todel is still the
\* to-delete set of the record kind being synced
GroupLaterPcs == {"g_add", "g_add_item", "g_add_other", "g_upd", "g_upd_item",
                  "g_upd_other"}
ContactLaterPcs == {"c_add", "c_add_item", "c_add_other", "c_upd", "c_upd_item",
                    "c_upd_other", "save", "done"}

Refreshed ==
    /\ info = [a \in Accounts |-> Snapshot(people[a])]
    /\ info_group = [a \in Accounts |-> Snapshot(cgroups[a])]

\* after a deletion phase that deleted something the snapshots are refreshed,
\* no create, update or update-tag call of the later phases carries a tag of
\* D, and no record bears a tag of D when the pass is over
DeletionWins(D) ==
    /\ (AfterGroupDeletion /\ todel # {}) => Refreshed
    /\ (AfterContactDeletion /\ todel # {}) => Refreshed
    /\ (mode = "normal" /\ pc \in GroupLaterPcs
           /\ lastcall.op \in {"add_group", "update_group", "update_group_tag"})
          => lastcall.tag \notin D
    /\ (mode = "normal" /\ pc \in ContactLaterPcs
           /\ lastcall.op \in {"add", "update", "update_tag"})
          => lastcall.tag \notin D
    /\ (mode = "normal" /\ pc \in GroupLaterPcs) => D \cap AllTags(cgroups) = {}
    /\ (mode = "normal" /\ pc \in ContactLaterPcs) => D \cap AllTags(people) = {}

\* C14: a tag of the pass's to-delete set is deleted for good: the snapshots
\* are refreshed after the deletion phase, the addition and update phases
\* issue no create or update call for the tag, and no replica holds it at
\* the end of the pass.
C14_DeletionWins == DeletionWins(todel)

\* the same for the tags that a record of the kind bore when the pass started
\* (the records a user deleted somewhere)
DeletionWinsForBorneTags ==
    DeletionWins(todel \cap (IF pc \in GroupLaterPcs THEN AllTags(pre.cgroups)
                                                    ELSE AllTags(pre.people)))

\* a contact deleted in one replica and edited in another since the watermark
\* is gone from every replica when the pass completes
DeletedAndEdited ==
    /\ Completed
    /\ \E t \in todel : \E x \in Copies(pre.people, t) :
          pre.people[x[1]][x[2]].updated > pre.last

\* the run before this one was aborted by a failing remote call after it had
\* issued remote writes, and this run was not interrupted
Recovering == prev.how = "aborted" /\ prev.ncalls > 0 /\ pc # "aborted"

\* C15: the normal pass that follows an aborted one, with no user change in
\* between, ends with every tag of any replica present in every replica.
C15_RecoversAfterAbort ==
    (Recovering /\ Ended) =>
        SameTagsEverywhere(people) /\ SameTagsEverywhere(cgroups)

\* the same for the passes that reach save_config
RecoversWhenCompleted ==
    (Recovering /\ pc = "done") =>
        SameTagsEverywhere(people) /\ SameTagsEverywhere(cgroups)

\* the records of f, as <<account, rn>>, that bear a tag no record of f0 bore:
\* those the addition phase tagged or created
Handled(f, f0) ==
    {x \in {<<a, rn>> : a \in Accounts, rn \in 1..9} \cup
            {<<a, GroupRn(a, n)>> : a \in Accounts, n \in 1..9} :
        /\ x[2] \in DOMAIN f[x[1]]
        /\ f[x[1]][x[2]].tag \notin AllTags(f0) \cup {NoTag}}

\* the candidates of the update phase, as <<account, rn>>
CandidateRecs ==
    UNION {{<<t2aru[t][k][2], t2aru[t][k][3]>> : k \in 1..Len(t2aru[t])} :
              t \in DOMAIN t2aru}

NotReprocessed(f, f0, otherpc) ==
    /\ Handled(f, f0) \subseteq added
    /\ CandidateRecs \cap added = {}
    /\ CandidateRecs \cap Handled(f, f0) = {}
    /\ pc = otherpc => <<cur.acc, cur.rn>> \notin added \cup Handled(f, f0)

\* C16: every record the addition phase tagged or created is in added, is
\* not among the candidates of the update phase of the same pass and is not
\* chosen as its source, for groups and for contacts.
C16_AddedNotReprocessed ==
    /\ (mode = "normal" /\ pc \in {"g_upd_item", "g_upd_other"})
          => NotReprocessed(cgroups, pre.cgroups, "g_upd_other")
    /\ (mode = "normal" /\ pc \in {"c_upd_item", "c_upd_other"})
          => NotReprocessed(people, pre.people, "c_upd_other")

\* a pass that added a contact and has another one to update
C16_Witness ==
    /\ mode = "normal"
    /\ pc = "c_upd_other"
    /\ Handled(people, pre.people) # {}
    /\ cur.tag \in AllTags(pre.people)

\* the step pushes a contact to another account (lines 435, 438, 510, 512)
FanOutStep == pc \in {"c_add_other", "c_upd_other"} /\ ncalls' = ncalls + 1

\* the groups of account b that bear one of the tags
GroupsWithTags(b, tags) ==
    {g \in DOMAIN cgroups[b] : cgroups[b][g].tag \in tags \ {NoTag}}

\* C17: the payload pushed to a destination holds the default membership and
\* the groups translated for that destination only, and the source payload
\* the fan-out copies from is not changed by a push.
C17_PerDestinationMemberships ==
    [][FanOutStep =>
          /\ lastcall'.mem = {MyContacts} \cup
                  GroupsWithTags(lastcall'.acc, Range(cur.groupTags))
          /\ cur.newcontact.mem = {MyContacts}
          /\ cur'.newcontact = cur.newcontact
          /\ cur'.groupTags = cur.groupTags]_vars

\* a contact with a label has been pushed to the second and to the third
\* account, each with its own group
C17_Witness ==
    /\ mode = "normal"
    /\ pc \in {"c_add_other", "c_upd_other"}
    /\ cur.acc = 1 /\ cur.j = 4
    /\ lastcall.op \in {"add", "update"}
    /\ lastcall.acc = 3
    /\ \E g \in lastcall.mem : g # MyContacts /\ GroupOwner(g) = 3
    /\ \E rn \in DOMAIN people[2] : \E g \in people[2][rn].mem : GroupOwner(g) = 2

\* the place of a remote write in the order of the phases
PhaseOf(op) ==
    CASE op = "none" -> 0
      [] op = "delete_group" -> 1
      [] op \in {"update_group_tag", "add_group"} -> 2
      [] op = "update_group" -> 3
      [] op = "delete" -> 4
      [] op \in {"update_tag", "add"} -> 5
      [] op = "update" -> 6

\* C18: in a normal pass the remote writes come in the order group delete,
\* group add, group update, contact delete, contact add, contact update:
\* no write belongs to an earlier phase than the write before it.
C18_PhaseOrder ==
    [][(mode = "normal" /\ pc # "idle" /\ ~Ended /\ ncalls' = ncalls + 1) =>
          PhaseOf(lastcall'.op) >= PhaseOf(lastcall.op)]_vars

\* a pass that wrote groups, issued contact deletes and now updates a contact
C18_Witness ==
    /\ mode = "normal"
    /\ lastcall.op = "update"
    /\ cgroups # pre.cgroups
    /\ todel # {}

\* the tags that account a held in f0 and no longer holds in f
Lost(f, f0) == UNION {TagsOf(f0[a]) \ TagsOf(f[a]) : a \in Accounts}

\* the remote state before the first run: what the users left behind. The
\* tags a user deleted somewhere are those some replica lacks in it.
BeforeRuns == IF prev = NoPrev THEN pre ELSE prev.pre

\* C19: a run deletes a tagged contact from a replica only if a user deleted
\* the contact bearing that tag from some replica, also when the run before
\* it was aborted part-way through a fan-out.
C19_NoLossWithoutUserDeletion ==
    pc # "idle" => Lost(people, pre.people) \subseteq Missing(BeforeRuns.people)

\* the same for contact groups
NoGroupLossWithoutUserDeletion ==
    pc # "idle" => Lost(cgroups, pre.cgroups) \subseteq Missing(BeforeRuns.cgroups)

\* no record of f was written after the watermark
NotNewerThan(f, w) == \A a \in Accounts : \A rn \in DOMAIN f[a] : f[a][rn].updated <= w

\* C20: the normal pass that follows a completed normal pass, with no user
\* change in between, issues no remote write; when a pass completes, no
\* record is newer than the watermark it saved and no tag is missing or new.
C20_Quiescent ==
    /\ prev.how = "done" =>
          /\ ncalls = 0 /\ lastcall = NoCall
          /\ people = pre.people /\ cgroups = pre.cgroups
    /\ Completed =>
          /\ NotNewerThan(people, last) /\ NotNewerThan(cgroups, last)
          /\ SameTagsEverywhere(people) /\ SameTagsEverywhere(cgroups)
          /\ \A a \in Accounts : Untagged(people[a]) = {} /\ Untagged(cgroups[a]) = {}

\* a second pass ran to its end after a first pass that had written
C20_Witness ==
    /\ prev.how = "done"
    /\ prev.ncalls > 0
    /\ pc = "done"

====
